---- MODULE Spec2Model ----
(***************************************************************************)
(* The state adapter of the EVM chaincode (statemanager/statemanager.go):  *)
(* an account cache and a storage cache shared by the views of one         *)
(* transaction, one latched error per view, written through to the         *)
(* chaincode stub.  The stub answers GetState from the committed ledger    *)
(* and collects PutState / DelState in the write set of the transaction,   *)
(* so a get never shows the transaction's own writes.                      *)
(***************************************************************************)
EXTENDS Integers, Sequences, FiniteSets, TLC

VARIABLES
    ledger,         \* committed world state: what stub.GetState returns
    wset,           \* write set of the transaction: PutState / DelState
    accountCaches,  \* the map[string][]byte values made so far, by the view made with them
    storageCaches,  \* the map[string]binary.Word256 values made so far, likewise
    cachesOf,       \* per view: the maps its accountCache and storageCache fields refer to
    creator,        \* per view: the view whose NewCache returned it
    EventCache,     \* []exec.LogEvent of the event manager
    deployed,       \* history: the (caller, sequence) pairs of the successful deployments
    error,          \* per view: the latched error
    readonly,       \* per view: the readonly flag
    live,           \* the views constructed so far
    lastOp          \* the call that was made last, its inputs and what it did

vars == <<ledger, wset, accountCaches, storageCaches, cachesOf, creator, EventCache,
          deployed, error, readonly, live, lastOp>>

----------------------------------------------------------------------------
(* Bounds *)

\* uint64 scaled down: balances and sequences are integers modulo MaxUint64 + 1
MaxUint64 == 2
\* binary.Word256 scaled down to WordLen bytes
WordLen == 2
\* the root adapter and the views NewCache makes of it and of its views
MaxViews == 3
\* the log events an event manager buffers
MaxEvents == 2

Views == 1..MaxViews
Root == 1

\* the two maps NewStateManager makes for the root adapter
accountCache == accountCaches[Root]
storageCache == storageCaches[Root]

Addresses == {<<0>>, <<10>>}
Zero256 == [i \in 1..WordLen |-> 0]

----------------------------------------------------------------------------
(* Errors.  NoError is the nil error; the three store errors are what      *)
(* errors.AsException makes of a failed stub call.                         *)

NoError == "nil"
DuplicateAddress == "DuplicateAddress"
InvalidAddress == "InvalidAddress"
IllegalWrite == "IllegalWrite"
IntegerOverflow == "IntegerOverflow"
InsufficientBalance == "InsufficientBalance"
GetStateError == "GetState failed"
PutStateError == "PutState failed"
DelStateError == "DelState failed"

\* PushError, as a function of the latch: the new value of st.error
PushErrorOverwrite(e, ex) == IF ex # NoError THEN ex ELSE e
PushError(e, ex) == IF e = NoError /\ ex # NoError THEN ex ELSE e

----------------------------------------------------------------------------
(* Keys and values *)

HexLower == <<"0","1","2","3","4","5","6","7","8","9","a","b","c","d","e","f">>
HexUpper == <<"0","1","2","3","4","5","6","7","8","9","A","B","C","D","E","F">>

\* hex encoding of a byte sequence, two digits a byte
HexEncode(bz, digits) ==
    [i \in 1..(2 * Len(bz)) |->
        LET b == bz[(i + 1) \div 2]
        IN  IF i % 2 = 1 THEN digits[(b \div 16) + 1] ELSE digits[(b % 16) + 1]]

\* address.String(): upper-case hex of the address bytes
AddressString(address) == HexEncode(address, HexUpper)

\* address.String() + hex.EncodeToString(key.Bytes())
CompKeyNoAddress(address, key) == HexEncode(key, HexLower)
CompKey(address, key) == AddressString(address) \o HexEncode(key, HexLower)

\* binary.LeftPadWord256: the bytes right-aligned in a zero word
LeftPadWord256(bz) ==
    [i \in 1..WordLen |->
        IF i > WordLen - Len(bz) THEN bz[i - (WordLen - Len(bz))] ELSE 0]

StorageKeys == {Zero256, LeftPadWord256(<<10>>)}

AccountKeys == {AddressString(a) : a \in Addresses}
SlotKeys == {CompKey(a, k) : a \in Addresses, k \in StorageKeys}
StoreKeys == AccountKeys \cup SlotKeys

----------------------------------------------------------------------------
(* Accounts *)

ContractPermFlags == {"Call", "Send"}
ContractPermsCallOnly == [Base |-> [Perms |-> {"Call"}, SetBit |-> {"Call"}], Roles |-> <<>>]
ContractPerms == [Base |-> [Perms |-> ContractPermFlags, SetBit |-> ContractPermFlags],
                  Roles |-> <<>>]
ZeroPerms == [Base |-> [Perms |-> {}, SetBit |-> {}], Roles |-> <<>>]

\* acm.Bytecode: a nil slice and an empty slice are different values
NilCode == [nil |-> TRUE, bz |-> <<>>]
Bytecode(bz) == [nil |-> FALSE, bz |-> bz]

\* &acm.Account{Address: address, Permissions: perms}
NewAccountNoAddress(address, perms) ==
    [Address |-> <<0>>, Balance |-> 0, Code |-> NilCode, Sequence |-> 0,
     Permissions |-> perms]
NewAccount(address, perms) ==
    [Address |-> address, Balance |-> 0, Code |-> NilCode, Sequence |-> 0,
     Permissions |-> perms]

\* a nil *acm.Account and a pointer to an account
NilAccount == [ptr |-> "nil"]
Ptr(acc) == [ptr |-> "account", val |-> acc]

\* Account.Marshal: the fields in wire order; a nil code is written as empty
Marshal(acc) ==
    <<acc.Address, acc.Balance, acc.Code.bz, acc.Sequence,
      acc.Permissions.Base.Perms, acc.Permissions.Base.SetBit, acc.Permissions.Roles>>

\* Account.Unmarshal into acct: every field comes from the bytes
Unmarshal(bz, acct) ==
    [Address |-> bz[1], Balance |-> bz[2], Code |-> Bytecode(bz[3]), Sequence |-> bz[4],
     Permissions |-> [Base |-> [Perms |-> bz[5], SetBit |-> bz[6]], Roles |-> bz[7]]]

----------------------------------------------------------------------------
(* The chaincode stub.  A call made through the adapter works on st, the   *)
(* state the call sees and what it has done so far: the latch of the view, *)
(* the two shared caches, the write set, and the stub calls it has issued. *)
(* io says which stub calls fail during the call.                          *)

Call(v) ==
    [error |-> error[v], accountCache |-> accountCaches[cachesOf[v]],
     storageCache |-> storageCaches[cachesOf[v]], wset |-> wset, gets |-> <<>>, puts |-> <<>>, dels |-> <<>>]

NoFailure == [get |-> FALSE, put |-> FALSE, del |-> FALSE]

\* stub.GetState(key): the committed value, never the transaction's own writes
StubGetState(st, key, io) ==
    [st  |-> [st EXCEPT !.gets = Append(@, key)],
     val |-> IF io.get THEN <<>> ELSE ledger[key],
     err |-> IF io.get THEN GetStateError ELSE NoError]

\* stub.PutState(key, value)
StubPutState(st, key, value, io) ==
    [st  |-> IF io.put THEN [st EXCEPT !.puts = Append(@, <<key, value>>)]
             ELSE [st EXCEPT !.puts = Append(@, <<key, value>>),
                             !.wset = (key :> [op |-> "put", val |-> value]) @@ @],
     err |-> IF io.put THEN PutStateError ELSE NoError]

\* stub.DelState(key)
StubDelState(st, key, io) ==
    [st  |-> IF io.del THEN [st EXCEPT !.dels = Append(@, key)]
             ELSE [st EXCEPT !.dels = Append(@, key),
                             !.wset = (key :> [op |-> "del"]) @@ @],
     err |-> IF io.del THEN DelStateError ELSE NoError]

\* st.PushError(err) on the state of a call
Push(st, ex) == [st EXCEPT !.error = PushError(@, ex)]

----------------------------------------------------------------------------
(* Account access *)

\* a map without one key: delete(m, key)
MapDelete(m, key) == [k \in DOMAIN m \ {key} |-> m[k]]

\* GetAccount: the cached bytes if the key is cached, else the stub's;
\* no bytes is no account.  The bytes are the adapter's own Marshal output,
\* so Unmarshal does not fail.
GetAccountSwallow(st, address, io) ==
    LET key == AddressString(address)
        hit == key \in DOMAIN st.accountCache
        rd  == StubGetState(st, key, io)
        serializedAccount == IF hit THEN st.accountCache[key] ELSE rd.val
    IN  [st |-> IF hit THEN st ELSE rd.st,
         acct |-> IF Len(serializedAccount) = 0 THEN NilAccount
                  ELSE Ptr(Unmarshal(serializedAccount, NewAccount(address, ZeroPerms))),
         err |-> NoError]
GetAccount(st, address, io) ==
    LET key == AddressString(address)
        hit == key \in DOMAIN st.accountCache
        rd  == StubGetState(st, key, io)
        st1 == IF hit THEN st ELSE rd.st
        serializedAccount == IF hit THEN st.accountCache[key] ELSE rd.val
    IN  IF ~hit /\ rd.err # NoError
        THEN [st |-> st1, acct |-> NilAccount, err |-> rd.err]
        ELSE IF Len(serializedAccount) = 0
        THEN [st |-> st1, acct |-> NilAccount, err |-> NoError]
        ELSE [st |-> st1,
              acct |-> Ptr(Unmarshal(serializedAccount, NewAccount(address, ZeroPerms))),
              err |-> NoError]

\* account: GetAccount, its error pushed
accountMust(st, address, io) ==
    LET r == GetAccount(st, address, io)
    IN  [st |-> IF r.acct = NilAccount THEN Push(Push(r.st, r.err), IllegalWrite)
                ELSE Push(r.st, r.err),
         acct |-> r.acct]
account(st, address, io) ==
    LET r == GetAccount(st, address, io)
    IN  [st |-> Push(r.st, r.err), acct |-> r.acct]

\* mustAccount: account, and IllegalWrite pushed when there is none
mustAccountSilent(st, address, io) == account(st, address, io)
mustAccount(st, address, io) ==
    LET r == account(st, address, io)
    IN  [st |-> IF r.acct = NilAccount THEN Push(r.st, IllegalWrite) ELSE r.st,
         acct |-> r.acct]

\* updateAccount: cache the bytes under the account's own address, then put
updateAccountNoCache(st, updatedAccount, io) ==
    LET serializedAccount == Marshal(updatedAccount)
        key == AddressString(updatedAccount.Address)
        wr  == StubPutState(st, key, serializedAccount, io)
    IN  Push(wr.st, wr.err)
updateAccount(st, updatedAccount, io) ==
    LET serializedAccount == Marshal(updatedAccount)
        key == AddressString(updatedAccount.Address)
        st1 == [st EXCEPT !.accountCache = (key :> serializedAccount) @@ @]
        wr  == StubPutState(st1, key, serializedAccount, io)
    IN  Push(wr.st, wr.err)

\* removeAccount: drop the cache entry, then delete from the store
removeAccount(st, address, io) ==
    LET key == AddressString(address)
        st1 == IF key \in DOMAIN st.accountCache
               THEN [st EXCEPT !.accountCache = MapDelete(@, key)]
               ELSE st
    IN  StubDelState(st1, key, io)

----------------------------------------------------------------------------
(* Readers: the state after the call and the value returned *)

Exists(st, address, io) ==
    LET r == GetAccount(st, address, io)
    IN  IF r.err # NoError THEN [st |-> Push(r.st, r.err), ret |-> FALSE]
        ELSE [st |-> r.st, ret |-> r.acct # NilAccount]

GetBalance(st, address, io) ==
    LET r == account(st, address, io)
    IN  [st |-> r.st, ret |-> IF r.acct = NilAccount THEN 0 ELSE r.acct.val.Balance]

GetPermissions(st, address, io) ==
    LET r == account(st, address, io)
    IN  [st |-> r.st, ret |-> IF r.acct = NilAccount THEN ZeroPerms ELSE r.acct.val.Permissions]

GetCode(st, address, io) ==
    LET r == account(st, address, io)
    IN  [st |-> r.st, ret |-> IF r.acct = NilAccount THEN NilCode ELSE r.acct.val.Code]

GetSequence(st, address, io) ==
    LET r == account(st, address, io)
    IN  [st |-> r.st, ret |-> IF r.acct = NilAccount THEN 0 ELSE r.acct.val.Sequence]

GetStorageCaching(st, address, key, io) ==
    LET compKey == CompKey(address, key)
        rd == StubGetState(st, compKey, io)
    IN  IF compKey \in DOMAIN st.storageCache
        THEN [st |-> st, ret |-> st.storageCache[compKey]]
        ELSE IF rd.err # NoError
        THEN [st |-> Push(rd.st, rd.err), ret |-> Zero256]
        ELSE [st |-> [rd.st EXCEPT !.storageCache =
                                       (compKey :> LeftPadWord256(rd.val)) @@ @],
              ret |-> LeftPadWord256(rd.val)]
GetStorage(st, address, key, io) ==
    LET compKey == CompKey(address, key)
        rd == StubGetState(st, compKey, io)
    IN  IF compKey \in DOMAIN st.storageCache
        THEN [st |-> st, ret |-> st.storageCache[compKey]]
        ELSE IF rd.err # NoError
        THEN [st |-> Push(rd.st, rd.err), ret |-> Zero256]
        ELSE [st |-> rd.st, ret |-> LeftPadWord256(rd.val)]

----------------------------------------------------------------------------
(* Writers: the state after the call (and the value returned, if any) *)

\* binary.IsUint64SumOverflow(a, b)
IsUint64SumOverflowNever(a, b) == FALSE
IsUint64SumOverflowOffByOne(a, b) == MaxUint64 - a <= b
IsUint64SumOverflow(a, b) == MaxUint64 - a < b

\* uint64 arithmetic wraps
Uint64(n) == n % (MaxUint64 + 1)

CreateAccountUnchecked(st, address, io) ==
    updateAccount(st, NewAccount(address, ContractPerms), io)
CreateAccount(st, address, io) ==
    LET ex == Exists(st, address, io)
        acc == GetAccount(ex.st, address, io)
    IN  IF ex.ret THEN Push(acc.st, DuplicateAddress)
        ELSE updateAccount(ex.st, NewAccount(address, ContractPerms), io)

\* true when InitCode finds code it must not overwrite
HasCodeNever(code) == FALSE
HasCode(code) == ~code.nil /\ Len(code.bz) > 0

InitCode(st, address, code, io) ==
    LET r == mustAccount(st, address, io)
    IN  IF r.acct = NilAccount THEN Push(r.st, InvalidAddress)
        ELSE IF HasCode(r.acct.val.Code) THEN Push(r.st, IllegalWrite)
        ELSE updateAccount(r.st, [r.acct.val EXCEPT !.Code = Bytecode(code)], io)

RemoveAccountUnchecked(st, address, io) ==
    LET ex == Exists(st, address, io)
        rm == removeAccount(ex.st, address, io)
    IN  Push(rm.st, rm.err)
RemoveAccount(st, address, io) ==
    LET ex == Exists(st, address, io)
        rm == removeAccount(ex.st, address, io)
    IN  IF ~ex.ret THEN Push(ex.st, DuplicateAddress)
        ELSE Push(rm.st, rm.err)

SetStorageNoCache(st, address, key, value, io) ==
    LET wr == StubPutState(st, CompKey(address, key), value, io)
    IN  Push(wr.st, wr.err)
SetStorageCacheAlways(st, address, key, value, io) ==
    LET compKey == CompKey(address, key)
        wr == StubPutState(st, compKey, value, io)
    IN  Push([wr.st EXCEPT !.storageCache = (compKey :> value) @@ @], wr.err)
SetStorage(st, address, key, value, io) ==
    LET compKey == CompKey(address, key)
        wr == StubPutState(st, compKey, value, io)
        st1 == IF wr.err = NoError
               THEN [wr.st EXCEPT !.storageCache = (compKey :> value) @@ @]
               ELSE wr.st
    IN  Push(st1, wr.err)

AddToBalance(st, address, amount, io) ==
    LET r == mustAccount(st, address, io)
    IN  IF r.acct = NilAccount THEN r.st
        ELSE IF IsUint64SumOverflow(r.acct.val.Balance, amount)
        THEN Push(r.st, IntegerOverflow)
        ELSE updateAccount(r.st,
                [r.acct.val EXCEPT !.Balance = Uint64(@ + amount)], io)

\* the guard of SubtractFromBalance
InsufficientNever(amount, balance) == FALSE
Insufficient(amount, balance) == amount > balance

SubtractFromBalance(st, address, amount, io) ==
    LET r == mustAccount(st, address, io)
    IN  IF r.acct = NilAccount THEN r.st
        ELSE IF Insufficient(amount, r.acct.val.Balance)
        THEN Push(r.st, InsufficientBalance)
        ELSE updateAccount(r.st,
                [r.acct.val EXCEPT !.Balance = Uint64(@ - amount)], io)

\* permission.BasePermissions.Set / Unset: a zero flag is refused
BaseSet(base, permFlag, value) ==
    IF permFlag = {} THEN base
    ELSE [Perms  |-> IF value THEN base.Perms \cup permFlag ELSE base.Perms \ permFlag,
          SetBit |-> base.SetBit \cup permFlag]

BaseUnset(base, permFlag) ==
    IF permFlag = {} THEN base
    ELSE [Perms |-> base.Perms, SetBit |-> base.SetBit \ permFlag]

SetPermission(st, address, permFlag, value, io) ==
    LET r == mustAccount(st, address, io)
    IN  IF r.acct = NilAccount THEN r.st
        ELSE updateAccount(r.st,
                [r.acct.val EXCEPT !.Permissions.Base = BaseSet(@, permFlag, value)], io)

UnsetPermission(st, address, permFlag, io) ==
    LET r == mustAccount(st, address, io)
    IN  IF r.acct = NilAccount THEN r.st
        ELSE updateAccount(r.st,
                [r.acct.val EXCEPT !.Permissions.Base = BaseUnset(@, permFlag)], io)

HasRole(roles, role) == \E i \in 1..Len(roles) : roles[i] = role

\* the roles without the first occurrence of role
WithoutRole(roles, role) ==
    LET i == CHOOSE j \in 1..Len(roles) :
                 roles[j] = role /\ \A k \in 1..(j - 1) : roles[k] # role
    IN  SubSeq(roles, 1, i - 1) \o SubSeq(roles, i + 1, Len(roles))

AddRole(st, address, role, io) ==
    LET r == mustAccount(st, address, io)
        added == ~HasRole(r.acct.val.Permissions.Roles, role)
    IN  IF r.acct = NilAccount THEN [st |-> r.st, ret |-> FALSE]
        ELSE [st |-> updateAccount(r.st,
                        [r.acct.val EXCEPT !.Permissions.Roles =
                            IF added THEN Append(@, role) ELSE @], io),
              ret |-> added]

RemoveRole(st, address, role, io) ==
    LET r == mustAccount(st, address, io)
        removed == HasRole(r.acct.val.Permissions.Roles, role)
    IN  IF r.acct = NilAccount THEN [st |-> r.st, ret |-> FALSE]
        ELSE [st |-> updateAccount(r.st,
                        [r.acct.val EXCEPT !.Permissions.Roles =
                            IF removed THEN WithoutRole(@, role) ELSE @], io),
              ret |-> removed]

IncSequence(st, address, io) ==
    LET r == mustAccount(st, address, io)
    IN  IF r.acct = NilAccount THEN r.st
        ELSE updateAccount(r.st, [r.acct.val EXCEPT !.Sequence = Uint64(@ + 1)], io)

----------------------------------------------------------------------------
(* Latch inspection *)

\* Sync and Error: the latched error, nothing else
Sync(st) == [st |-> st, ret |-> st.error]
Error(st) == [st |-> st, ret |-> st.error]

----------------------------------------------------------------------------
(* The event manager (package event).  A tag value and a message are       *)
(* interface values: a dynamic type and, for the types the code asserts,   *)
(* a value.  Strings are sequences of characters.  A call returns nil, an  *)
(* error, or panics.                                                       *)

String(chars) == [type |-> "string", val |-> chars]
LogEvent(address, data) == [type |-> "*exec.LogEvent",
                            val |-> [Address |-> address, Data |-> data]]
CallEvent == [type |-> "*exec.CallEvent"]
NoTag == [type |-> "nil"]

\* json.Marshal(evmgr.EventCache): the array of the events' objects, in order
JsonMarshal(cache) == [i \in 1..Len(cache) |-> <<cache[i].Address, cache[i].Data>>]

\* evmgr.Log(log)
Log(cache, log) == [cache |-> Append(cache, log), ret |-> "nil"]

\* evmgr.Publish(ctx, message, tags); evID[0:3] panics on a shorter evID
PublishAll(cache, message, tags) ==
    IF message.type = "*exec.LogEvent" THEN Log(cache, message.val)
    ELSE [cache |-> cache, ret |-> "error"]
Publish(cache, message, tags) ==
    LET evID == tags.EventID
    IN  IF evID.type # "string" THEN [cache |-> cache, ret |-> "error"]
        ELSE IF message.type # "*exec.LogEvent" THEN [cache |-> cache, ret |-> "error"]
        ELSE IF Len(evID.val) < 3 THEN [cache |-> cache, ret |-> "panic"]
        ELSE IF SubSeq(evID.val, 1, 3) = <<"L", "o", "g">> THEN Log(cache, message.val)
        ELSE [cache |-> cache, ret |-> "nil"]

\* evmgr.Flush(eventName): the SetEvent calls it issues and what it returns
Flush(cache, eventName, fails) ==
    IF Len(cache) = 0 THEN [events |-> <<>>, ret |-> "nil"]
    ELSE [events |-> <<<<eventName, JsonMarshal(cache)>>>>,
          ret |-> IF fails THEN "error" ELSE "nil"]

----------------------------------------------------------------------------
(* The chaincode entrypoint (evmcc/evmcc.go).  An invocation runs on a      *)
(* fresh adapter and a fresh event manager; it ends in shim.Success, in     *)
(* shim.Error, or in a panic.                                               *)

Success(payload) == [status |-> "success", payload |-> payload]
ShimError(message) == [status |-> "error", message |-> message]
Panic(message) == [status |-> "panic", message |-> message]

AccountArg == <<"a", "c", "c", "o", "u", "n", "t">>
GetCodeArg == <<"g", "e", "t", "C", "o", "d", "e">>
ZeroAddress == <<0>>
\* string(args[1][0:8]): the characters of the function hash
FunctionHashChars == 8

\* hex.DecodeString
IsHexDigit(c) == \E i \in 1..16 : HexLower[i] = c \/ HexUpper[i] = c
HexValue(c) == (CHOOSE i \in 1..16 : HexLower[i] = c \/ HexUpper[i] = c) - 1
HexDecode(str) ==
    IF Len(str) % 2 = 1 \/ \E i \in 1..Len(str) : ~IsHexDigit(str[i])
    THEN [bz |-> <<>>, err |-> TRUE]
    ELSE [bz |-> [i \in 1..(Len(str) \div 2) |->
                     16 * HexValue(str[2 * i - 1]) + HexValue(str[2 * i])],
          err |-> FALSE]

\* crypto.AddressFromBytes: the bytes, when they have the length of an address
AddressFromBytes(bz) ==
    IF Len(bz) # Len(ZeroAddress) THEN [addr |-> ZeroAddress, err |-> TRUE]
    ELSE [addr |-> bz, err |-> FALSE]

\* getCallerAddress: the address of the creator's certificate, when the
\* stub returns a creator that holds one
getCallerAddress(identity) ==
    IF identity.ok THEN [addr |-> identity.addr, err |-> FALSE]
    ELSE [addr |-> ZeroAddress, err |-> TRUE]

\* crypto.NewContractAddress(caller, sequence): a hash of the two, taken to
\* be free of collisions
NewContractAddress(caller, sequence) == <<caller[1] + 1 + sequence>>

\* vm.Call(state, evmgr, ...): the external EVM.  It returns an error or an
\* output; running the callee's code it may publish log events and remove
\* the callee (SELFDESTRUCT) through the adapter it is handed.
VmCall(st, cache, callee, vm, io) ==
    LET rm == IF vm.selfdestruct /\ ~vm.err THEN RemoveAccount(st, callee, io) ELSE st
    IN  [st |-> rm, cache |-> IF vm.err THEN cache ELSE cache \o vm.logs,
         output |-> vm.output, err |-> vm.err]

\* one statement after another: the value of a call is computed once and
\* the rest of the handler goes on with it
Then(value, Rest(_)) == CHOOSE r \in {Rest(v) : v \in {value}} : TRUE

\* Invoke, the "account" query
InvokeAccount(st, identity) ==
    LET caller == getCallerAddress(identity)
    IN  [st |-> st, events |-> <<>>,
         response |-> IF caller.err THEN ShimError("failed to get creator")
                      ELSE Success(AddressString(caller.addr))]

\* Invoke, the "getCode" query; err is nil where its message is asked for
getCode(st, address, io) ==
    LET c == HexDecode(address)
        calleeAddr == AddressFromBytes(c.bz)
    IN  IF c.err
        THEN [st |-> st, events |-> <<>>,
              response |-> ShimError("failed to decode callee address")]
        ELSE IF calleeAddr.err
        THEN [st |-> st, events |-> <<>>,
              response |-> ShimError("failed to get callee address")]
        ELSE Then(GetCode(st, calleeAddr.addr, io), LAMBDA code :
                 [st |-> code.st, events |-> <<>>,
                  response |-> IF code.st.error # NoError
                               THEN Panic("nil pointer dereference")
                               ELSE Success(HexEncode(code.ret.bz, HexLower))])

\* Invoke, the deployment: callee is the zero address
Deploy(st, callerAddr, input, vm, io) ==
    Then(GetSequence(st, callerAddr, io), LAMBDA seq :
    Then(NewContractAddress(callerAddr, seq.ret), LAMBDA contractAddr :
    Then(IncSequence(seq.st, callerAddr, io), LAMBDA st1 :
    Then(CreateAccount(st1, contractAddr, io), LAMBDA st2 :
        IF st2.error # NoError
        THEN [st |-> st2, events |-> <<>>, response |-> ShimError("failed to create account")]
        ELSE
    Then(GetAccount(st2, contractAddr, io), LAMBDA contractAcct :
        IF contractAcct.err # NoError
        THEN [st |-> contractAcct.st, events |-> <<>>,
              response |-> ShimError("failed to get account")]
        ELSE
    Then(VmCall(contractAcct.st, <<>>, contractAddr, vm, io), LAMBDA run :
        IF run.err
        THEN [st |-> run.st, events |-> <<>>, response |-> ShimError("failed to deploy code")]
        ELSE IF run.output.nil
        THEN [st |-> run.st, events |-> <<>>, response |-> ShimError("nil bytecode")]
        ELSE
    Then(InitCode(run.st, contractAddr, run.output.bz, io), LAMBDA st3 :
        [st |-> st3, events |-> <<>>,
         response |-> IF st3.error # NoError
                      THEN ShimError("failed to update contract account")
                      ELSE Success(HexEncode(contractAddr, HexLower))])))))))

\* Invoke, the call of a contract; err is nil where the message of the
\* missing code is asked for, and args[1][0:8] panics when args[1] has
\* neither the length nor the spare capacity
CallContract(st, calleeAddr, arg, env, vm, io) ==
    Then(GetCode(st, calleeAddr, io), LAMBDA calleeCode :
        IF calleeCode.ret.nil
        THEN [st |-> calleeCode.st, events |-> <<>>,
              response |-> Panic("nil pointer dereference")]
        ELSE
    Then(VmCall(calleeCode.st, <<>>, calleeAddr, vm, io), LAMBDA run :
        IF run.err
        THEN [st |-> run.st, events |-> <<>>,
              response |-> ShimError("failed to execute contract")]
        ELSE IF Len(arg) < FunctionHashChars /\ ~env.spare
        THEN [st |-> run.st, events |-> <<>>,
              response |-> Panic("slice bounds out of range")]
        ELSE
    Then(Flush(run.cache,
               IF Len(arg) >= FunctionHashChars THEN SubSeq(arg, 1, FunctionHashChars)
               ELSE arg,
               env.setEventFails), LAMBDA flush :
        [st |-> run.st, events |-> flush.events,
         response |-> IF flush.ret # "nil" THEN ShimError("error in Flush")
                      ELSE Success(run.output.bz)])))

\* Invoke, after the addresses of callee and caller are known: the caller's
\* account is made when there is none, then the input is decoded
InvokeFrom(state, calleeAddr, callerAddr, args, env, vm, io) ==
    Then(Exists(state, callerAddr, io), LAMBDA ex :
    Then(IF ex.ret THEN ex.st ELSE CreateAccount(ex.st, callerAddr, io), LAMBDA st1 :
    Then(HexDecode(args[2]), LAMBDA input :
        IF input.err
        THEN [st |-> st1, events |-> <<>>, response |-> ShimError("failed to decode input bytes")]
        ELSE IF calleeAddr = ZeroAddress THEN Deploy(st1, callerAddr, input.bz, vm, io)
        ELSE CallContract(st1, calleeAddr, args[2], env, vm, io))))

\* Invoke on a fresh adapter; args[0] is read for the message also when
\* there is no argument
Invoke(args, identity, env, vm, io) ==
    LET state == [error |-> NoError, accountCache |-> <<>>, storageCache |-> <<>>,
                  wset |-> <<>>, gets |-> <<>>, puts |-> <<>>, dels |-> <<>>]
        none == [st |-> state, events |-> <<>>, response |-> Success(<<>>)]
        c == HexDecode(args[1])
        calleeAddr == AddressFromBytes(c.bz)
        caller == getCallerAddress(identity)
    IN  IF Len(args) = 1 /\ args[1] = AccountArg THEN InvokeAccount(state, identity)
        ELSE IF Len(args) = 0
        THEN [none EXCEPT !.response = Panic("index out of range")]
        ELSE IF Len(args) # 2 THEN [none EXCEPT !.response = ShimError("expects 2 args")]
        ELSE IF args[1] = GetCodeArg THEN getCode(state, args[2], io)
        ELSE IF c.err
        THEN [none EXCEPT !.response = ShimError("failed to decode callee address")]
        ELSE IF calleeAddr.err
        THEN [none EXCEPT !.response = ShimError("failed to get callee address")]
        ELSE IF caller.err
        THEN [none EXCEPT !.response = ShimError("failed to get caller address")]
        ELSE InvokeFrom(state, calleeAddr.addr, caller.addr, args, env, vm, io)

\* the ledger after the transaction: its write set is committed when the
\* chaincode responded with success
Commit(store, ws) ==
    [k \in DOMAIN store |->
        IF k \in DOMAIN ws THEN (IF ws[k].op = "put" THEN ws[k].val ELSE <<>>)
        ELSE store[k]]

----------------------------------------------------------------------------
(* Initial states: a fresh adapter over a committed ledger.  Every record  *)
(* in the ledger was put by updateAccount in an earlier transaction, so it *)
(* sits under the key of its own address.                                  *)

NoArgs == [addr |-> <<>>, amount |-> 0, code |-> <<>>, key |-> <<>>, value |-> <<>>,
           flag |-> {}, bool |-> FALSE, role |-> "", err |-> NoError]

Committed(address, bals, codes, seqs) ==
    {<<>>} \cup
    {Marshal([Address |-> address, Balance |-> b, Code |-> Bytecode(c), Sequence |-> s,
              Permissions |-> ContractPerms]) : b \in bals, c \in codes, s \in seqs}

InitWith(addrs, bals, codes, seqs, slots) ==
    /\ \E am \in [Addresses -> UNION {Committed(a, bals, codes, seqs) : a \in Addresses}],
          sm \in [SlotKeys -> slots] :
          /\ \A a \in addrs : am[a] \in Committed(a, bals, codes, seqs)
          /\ \A a \in Addresses \ addrs : am[a] = <<>>
          /\ ledger = [k \in StoreKeys |->
                          IF k \in AccountKeys
                          THEN am[CHOOSE a \in Addresses : AddressString(a) = k]
                          ELSE sm[k]]
    /\ wset = <<>>
    /\ accountCaches = [v \in Views |-> <<>>]
    /\ storageCaches = [v \in Views |-> <<>>]
    /\ cachesOf = [v \in Views |-> Root]
    /\ creator = [v \in Views |-> Root]
    /\ EventCache = <<>>
    /\ deployed = {}
    /\ error = [v \in Views |-> NoError]
    /\ readonly = [v \in Views |-> FALSE]
    /\ live = {Root}
    /\ lastOp = [op |-> "NewStateManager", view |-> Root, args |-> NoArgs, io |-> NoFailure,
                 ret |-> "void", gets |-> <<>>, puts |-> <<>>, dels |-> <<>>]

----------------------------------------------------------------------------
(* Actions: one call through a live view *)

FinishReadonlyBlocked(v, op, args, io, st, ret) ==
    LET blocked == readonly[v] /\ op \in {"CreateAccount", "InitCode", "RemoveAccount",
                       "SetStorage", "AddToBalance", "SubtractFromBalance", "SetPermission",
                       "UnsetPermission", "AddRole", "RemoveRole", "IncSequence"}
    IN  /\ error' = [error EXCEPT ![v] = IF blocked THEN PushError(@, IllegalWrite)
                                         ELSE st.error]
        /\ accountCaches' = IF blocked THEN accountCaches
                            ELSE [accountCaches EXCEPT ![cachesOf[v]] = st.accountCache]
        /\ storageCaches' = IF blocked THEN storageCaches
                            ELSE [storageCaches EXCEPT ![cachesOf[v]] = st.storageCache]
        /\ wset' = IF blocked THEN wset ELSE st.wset
        /\ lastOp' = [op |-> op, view |-> v, args |-> args, io |-> io, ret |-> ret,
                      gets |-> IF blocked THEN <<>> ELSE st.gets,
                      puts |-> IF blocked THEN <<>> ELSE st.puts,
                      dels |-> IF blocked THEN <<>> ELSE st.dels]
        /\ UNCHANGED <<ledger, cachesOf, creator, EventCache, deployed, readonly, live>>
FinishSharedLatch(v, op, args, io, st, ret) ==
    /\ error' = [u \in Views |-> IF u \in live THEN st.error ELSE error[u]]
    /\ accountCaches' = [accountCaches EXCEPT ![cachesOf[v]] = st.accountCache]
    /\ storageCaches' = [storageCaches EXCEPT ![cachesOf[v]] = st.storageCache]
    /\ wset' = st.wset
    /\ lastOp' = [op |-> op, view |-> v, args |-> args, io |-> io, ret |-> ret,
                  gets |-> st.gets, puts |-> st.puts, dels |-> st.dels]
    /\ UNCHANGED <<ledger, cachesOf, creator, EventCache, deployed, readonly, live>>
Finish(v, op, args, io, st, ret) ==
    /\ error' = [error EXCEPT ![v] = st.error]
    /\ accountCaches' = [accountCaches EXCEPT ![cachesOf[v]] = st.accountCache]
    /\ storageCaches' = [storageCaches EXCEPT ![cachesOf[v]] = st.storageCache]
    /\ wset' = st.wset
    /\ lastOp' = [op |-> op, view |-> v, args |-> args, io |-> io, ret |-> ret,
                  gets |-> st.gets, puts |-> st.puts, dels |-> st.dels]
    /\ UNCHANGED <<ledger, cachesOf, creator, EventCache, deployed, readonly, live>>

GetFails == {[NoFailure EXCEPT !.get = f] : f \in BOOLEAN}
PutFails == {[NoFailure EXCEPT !.put = f] : f \in BOOLEAN}
GetPutFails == {[NoFailure EXCEPT !.get = f, !.put = g] : f, g \in BOOLEAN}
GetDelFails == {[NoFailure EXCEPT !.get = f, !.del = g] : f, g \in BOOLEAN}

\* NewCache through view v, returning view w: the new stateManager gets the
\* two map references of v, no new map is made
NewCacheCopied(v, w) ==
    [cachesOf |-> w,
     accountCaches |-> [accountCaches EXCEPT ![w] = accountCaches[cachesOf[v]]],
     storageCaches |-> [storageCaches EXCEPT ![w] = storageCaches[cachesOf[v]]]]
NewCache(v, w) ==
    [cachesOf |-> cachesOf[v], accountCaches |-> accountCaches,
     storageCaches |-> storageCaches]

CallNewCache ==
    \E v \in live, w \in Views \ live, ro \in BOOLEAN :
        /\ \A u \in Views \ live : w <= u
        /\ live' = live \cup {w}
        /\ cachesOf' = [cachesOf EXCEPT ![w] = NewCache(v, w).cachesOf]
        /\ accountCaches' = NewCache(v, w).accountCaches
        /\ storageCaches' = NewCache(v, w).storageCaches
        /\ creator' = [creator EXCEPT ![w] = v]
        /\ error' = [error EXCEPT ![w] = NoError]
        /\ readonly' = [readonly EXCEPT ![w] = ro]
        /\ lastOp' = [op |-> "NewCache", view |-> v, args |-> [NoArgs EXCEPT !.bool = ro],
                      io |-> NoFailure, ret |-> w, gets |-> <<>>, puts |-> <<>>, dels |-> <<>>]
        /\ UNCHANGED <<ledger, wset, EventCache, deployed>>

\* the calls of the event manager
EventOp(op, args, ret) ==
    /\ lastOp' = [op |-> op, view |-> Root, args |-> args, io |-> NoFailure, ret |-> ret,
                  gets |-> <<>>, puts |-> <<>>, dels |-> <<>>]
    /\ UNCHANGED <<ledger, wset, accountCaches, storageCaches, cachesOf, creator,
                   deployed, error, readonly, live>>

CallNewEventManager ==
    /\ EventCache' = <<>>
    /\ EventOp("NewEventManager", NoArgs, "void")

CallPublish(messages, ids) ==
    \E message \in messages, id \in ids :
        LET r == Publish(EventCache, message, [EventID |-> id])
        IN  /\ Len(r.cache) <= MaxEvents
            /\ EventCache' = r.cache
            /\ EventOp("Publish", [message |-> message, tags |-> [EventID |-> id]], r.ret)

CallFlush(names, fails) ==
    \E eventName \in names, f \in fails :
        LET r == Flush(EventCache, eventName, f)
        IN  /\ EventCache' = EventCache
            /\ EventOp("Flush", [eventName |-> eventName, fails |-> f], r)

\* the arguments ask for a deployment: the callee is the zero address
IsDeploy(args) ==
    /\ Len(args) = 2
    /\ args[1] # GetCodeArg
    /\ ~HexDecode(args[1]).err
    /\ HexDecode(args[1]).bz = ZeroAddress

\* one transaction: Invoke on the committed ledger, and the commit
CallInvoke(argss, identities, envs, vms, fails) ==
    \E args \in argss, identity \in identities, env \in envs, vm \in vms, io \in fails :
        \E r \in {Invoke(args, identity, env, vm, io)} :
            /\ deployed' =
                   IF IsDeploy(args) /\ r.response.status = "success"
                   THEN deployed \cup
                            {<<identity.addr, n>> : n \in
                                {m \in 0..MaxUint64 :
                                    r.response.payload =
                                        HexEncode(NewContractAddress(identity.addr, m), HexLower)}}
                   ELSE deployed
            /\ ledger' = IF r.response.status = "success" THEN Commit(ledger, r.st.wset)
                         ELSE ledger
            /\ lastOp' = [op |-> "Invoke", view |-> Root,
                          args |-> [args |-> args, identity |-> identity, env |-> env,
                                    vm |-> vm],
                          io |-> io, ret |-> [response |-> r.response, events |-> r.events],
                          gets |-> r.st.gets, puts |-> r.st.puts, dels |-> r.st.dels]
            /\ UNCHANGED <<wset, accountCaches, storageCaches, cachesOf, creator, EventCache,
                           error, readonly, live>>

CallSync ==
    \E v \in live :
        LET r == Sync(Call(v)) IN Finish(v, "Sync", NoArgs, NoFailure, r.st, r.ret)

CallError ==
    \E v \in live :
        LET r == Error(Call(v)) IN Finish(v, "Error", NoArgs, NoFailure, r.st, r.ret)

CallPushError(errs) ==
    \E v \in live, ex \in errs :
        Finish(v, "PushError", [NoArgs EXCEPT !.err = ex], NoFailure,
               Push(Call(v), ex), "void")

CallGetStorage(addrs, keys, fails) ==
    \E v \in live, a \in addrs, k \in keys, io \in fails :
        LET r == GetStorage(Call(v), a, k, io)
        IN  Finish(v, "GetStorage", [NoArgs EXCEPT !.addr = a, !.key = k], io, r.st, r.ret)

CallGetBalance(addrs, fails) ==
    \E v \in live, a \in addrs, io \in fails :
        LET r == GetBalance(Call(v), a, io)
        IN  Finish(v, "GetBalance", [NoArgs EXCEPT !.addr = a], io, r.st, r.ret)

CallGetPermissions(addrs, fails) ==
    \E v \in live, a \in addrs, io \in fails :
        LET r == GetPermissions(Call(v), a, io)
        IN  Finish(v, "GetPermissions", [NoArgs EXCEPT !.addr = a], io, r.st, r.ret)

CallGetCode(addrs, fails) ==
    \E v \in live, a \in addrs, io \in fails :
        LET r == GetCode(Call(v), a, io)
        IN  Finish(v, "GetCode", [NoArgs EXCEPT !.addr = a], io, r.st, r.ret)

CallExists(addrs, fails) ==
    \E v \in live, a \in addrs, io \in fails :
        LET r == Exists(Call(v), a, io)
        IN  Finish(v, "Exists", [NoArgs EXCEPT !.addr = a], io, r.st, r.ret)

CallGetSequence(addrs, fails) ==
    \E v \in live, a \in addrs, io \in fails :
        LET r == GetSequence(Call(v), a, io)
        IN  Finish(v, "GetSequence", [NoArgs EXCEPT !.addr = a], io, r.st, r.ret)

CallGetAccount(addrs, fails) ==
    \E v \in live, a \in addrs, io \in fails :
        LET r == GetAccount(Call(v), a, io)
        IN  Finish(v, "GetAccount", [NoArgs EXCEPT !.addr = a], io, r.st,
                   [acct |-> r.acct, err |-> r.err])

CallCreateAccount(addrs, fails) ==
    \E v \in live, a \in addrs, io \in fails :
        Finish(v, "CreateAccount", [NoArgs EXCEPT !.addr = a], io,
               CreateAccount(Call(v), a, io), "void")

CallInitCode(addrs, codes, fails) ==
    \E v \in live, a \in addrs, c \in codes, io \in fails :
        Finish(v, "InitCode", [NoArgs EXCEPT !.addr = a, !.code = c], io,
               InitCode(Call(v), a, c, io), "void")

CallRemoveAccount(addrs, fails) ==
    \E v \in live, a \in addrs, io \in fails :
        Finish(v, "RemoveAccount", [NoArgs EXCEPT !.addr = a], io,
               RemoveAccount(Call(v), a, io), "void")

CallSetStorage(addrs, keys, words, fails) ==
    \E v \in live, a \in addrs, k \in keys, w \in words, io \in fails :
        Finish(v, "SetStorage", [NoArgs EXCEPT !.addr = a, !.key = k, !.value = w], io,
               SetStorage(Call(v), a, k, w, io), "void")

CallAddToBalance(addrs, amounts, fails) ==
    \E v \in live, a \in addrs, n \in amounts, io \in fails :
        Finish(v, "AddToBalance", [NoArgs EXCEPT !.addr = a, !.amount = n], io,
               AddToBalance(Call(v), a, n, io), "void")

CallSubtractFromBalance(addrs, amounts, fails) ==
    \E v \in live, a \in addrs, n \in amounts, io \in fails :
        Finish(v, "SubtractFromBalance", [NoArgs EXCEPT !.addr = a, !.amount = n], io,
               SubtractFromBalance(Call(v), a, n, io), "void")

CallSetPermission(addrs, flags, fails) ==
    \E v \in live, a \in addrs, f \in flags, b \in BOOLEAN, io \in fails :
        Finish(v, "SetPermission", [NoArgs EXCEPT !.addr = a, !.flag = f, !.bool = b], io,
               SetPermission(Call(v), a, f, b, io), "void")

CallUnsetPermission(addrs, flags, fails) ==
    \E v \in live, a \in addrs, f \in flags, io \in fails :
        Finish(v, "UnsetPermission", [NoArgs EXCEPT !.addr = a, !.flag = f], io,
               UnsetPermission(Call(v), a, f, io), "void")

CallAddRole(addrs, roles, fails) ==
    \E v \in live, a \in addrs, ro \in roles, io \in fails :
        LET r == AddRole(Call(v), a, ro, io)
        IN  Finish(v, "AddRole", [NoArgs EXCEPT !.addr = a, !.role = ro], io, r.st, r.ret)

CallRemoveRole(addrs, roles, fails) ==
    \E v \in live, a \in addrs, ro \in roles, io \in fails :
        LET r == RemoveRole(Call(v), a, ro, io)
        IN  Finish(v, "RemoveRole", [NoArgs EXCEPT !.addr = a, !.role = ro], io, r.st, r.ret)

CallIncSequence(addrs, fails) ==
    \E v \in live, a \in addrs, io \in fails :
        Finish(v, "IncSequence", [NoArgs EXCEPT !.addr = a], io,
               IncSequence(Call(v), a, io), "void")

----------------------------------------------------------------------------
(* Specifications *)

A1 == <<10>>
A2 == <<0>>
K1 == LeftPadWord256(<<10>>)

NoFail == {NoFailure}
W1 == LeftPadWord256(<<1>>)
W2 == LeftPadWord256(<<1, 0>>)

\* Spec: every operation of one adapter instance, on one address and one
\* slot of an empty ledger; any read of the store may fail, and so may the
\* put of SetStorage and the delete of RemoveAccount
Init == InitWith({}, {}, {}, {}, {<<>>})

Next ==
    \/ CallSync
    \/ CallError
    \/ CallPushError({NoError, InvalidAddress})
    \/ CallExists({A1}, GetFails)
    \/ CallGetStorage({A1}, {K1}, GetFails)
    \/ CallCreateAccount({A1}, GetFails)
    \/ CallInitCode({A1}, {<<1>>}, GetFails)
    \/ CallRemoveAccount({A1}, GetDelFails)
    \/ CallSetStorage({A1}, {K1}, {W1}, PutFails)
    \/ CallAddToBalance({A1}, {MaxUint64}, GetFails)
    \/ CallSubtractFromBalance({A1}, {MaxUint64}, GetFails)
    \/ CallSetPermission({A1}, {{"Root"}}, GetFails)
    \/ CallUnsetPermission({A1}, {{"Root"}}, GetFails)
    \/ CallAddRole({A1}, {"r1"}, GetFails)
    \/ CallRemoveRole({A1}, {"r1"}, GetFails)
    \/ CallIncSequence({A1}, GetFails)

Spec == Init /\ [][Next]_vars

\* SpecAccount: the account operations on one address that the committed
\* ledger may or may not hold; the stub does not fail
InitAccount == InitWith({A1}, {1}, {<<>>}, {0}, {<<>>})

NextAccount ==
    \/ CallExists({A1}, NoFail)
    \/ CallCreateAccount({A1}, NoFail)
    \/ CallInitCode({A1}, {<<1>>}, NoFail)
    \/ CallRemoveAccount({A1}, NoFail)
    \/ CallAddToBalance({A1}, {1}, NoFail)
    \/ CallSubtractFromBalance({A1}, {1}, NoFail)
    \/ CallSetPermission({A1}, {{}, {"Root"}}, NoFail)
    \/ CallUnsetPermission({A1}, {{"Call"}}, NoFail)
    \/ CallAddRole({A1}, {"r1"}, NoFail)
    \/ CallRemoveRole({A1}, {"r1"}, NoFail)
    \/ CallIncSequence({A1}, NoFail)

SpecAccount == InitAccount /\ [][NextAccount]_vars

\* SpecBalance: balances of two addresses, one of which the committed ledger
\* may hold; the put of AddToBalance and the read of SubtractFromBalance may
\* fail
InitBalance == InitWith({A1}, {1}, {<<>>}, {0}, {<<>>})

NextBalance ==
    \/ CallCreateAccount(Addresses, NoFail)
    \/ CallGetBalance(Addresses, NoFail)
    \/ CallAddToBalance(Addresses, {0, 1, MaxUint64}, PutFails)
    \/ CallSubtractFromBalance(Addresses, {1, MaxUint64}, GetFails)

SpecBalance == InitBalance /\ [][NextBalance]_vars

\* SpecCode: creation, removal and code of two addresses, one of which the
\* committed ledger may hold; the read of CreateAccount and the put of
\* InitCode may fail
InitCodes == InitWith({A1}, {0}, {<<>>, <<1>>}, {0}, {<<>>})

NextCode ==
    \/ CallCreateAccount(Addresses, GetFails)
    \/ CallRemoveAccount(Addresses, NoFail)
    \/ CallGetCode(Addresses, NoFail)
    \/ CallInitCode(Addresses, {<<>>, <<1>>, <<2>>}, PutFails)

SpecCode == InitCodes /\ [][NextCode]_vars

\* SpecStorage: one slot of each address; reads and puts may fail
InitStorage == InitWith({}, {}, {}, {}, {<<>>, <<1>>})

NextStorage ==
    \/ CallGetStorage(Addresses, {K1}, GetFails)
    \/ CallSetStorage(Addresses, {K1}, {Zero256, W1, W2}, PutFails)

SpecStorage == InitStorage /\ [][NextStorage]_vars

\* SpecRead: every read accessor on both addresses and one slot, over a
\* ledger that may hold an account at A1 and a value in the slot; any read
\* of the store may fail; A2 is created and the slot of A1 is set meanwhile
InitRead == InitWith({A1}, {1}, {<<1>>}, {1}, {<<>>, <<1>>})

NextRead ==
    \/ CallExists(Addresses, GetFails)
    \/ CallGetAccount(Addresses, GetFails)
    \/ CallGetBalance(Addresses, GetFails)
    \/ CallGetPermissions(Addresses, GetFails)
    \/ CallGetCode(Addresses, GetFails)
    \/ CallGetSequence(Addresses, GetFails)
    \/ CallGetStorage(Addresses, {K1}, GetFails)
    \/ CallCreateAccount({A2}, NoFail)
    \/ CallSetStorage({A1}, {K1}, {W1}, NoFail)

SpecRead == InitRead /\ [][NextRead]_vars

\* SpecMissing: the in-place mutators and RemoveAccount on an address that
\* has no account until CreateAccount makes one; any read of the store may
\* fail, and so may the delete of RemoveAccount
InitMissing == InitWith({}, {}, {}, {}, {<<>>})

NextMissing ==
    \/ CallCreateAccount({A1}, NoFail)
    \/ CallRemoveAccount({A1}, GetDelFails)
    \/ CallAddToBalance({A1}, {1}, GetFails)
    \/ CallSubtractFromBalance({A1}, {1}, GetFails)
    \/ CallSetPermission({A1}, {{"Root"}}, GetFails)
    \/ CallUnsetPermission({A1}, {{"Root"}}, GetFails)
    \/ CallAddRole({A1}, {"r1"}, GetFails)
    \/ CallRemoveRole({A1}, {"r1"}, GetFails)
    \/ CallIncSequence({A1}, GetFails)

SpecMissing == InitMissing /\ [][NextMissing]_vars

\* SpecKeys: accounts made, changed and removed at both addresses, and
\* words set in both slots of each, over a ledger that holds a word in
\* every slot and may hold an account at A1
InitKeys == InitWith({A1}, {0}, {<<>>}, {0}, {<<1>>})

NextKeys ==
    \/ CallCreateAccount(Addresses, NoFail)
    \/ CallIncSequence(Addresses, NoFail)
    \/ CallRemoveAccount(Addresses, NoFail)
    \/ CallSetStorage(Addresses, StorageKeys, {W2}, NoFail)

SpecKeys == InitKeys /\ [][NextKeys]_vars

\* SpecEvents: one event manager after another, each publishing log events
\* and other events under tags of every kind, and flushing
E1 == LogEvent(A1, <<1>>)
E2 == LogEvent(A1, <<2>>)
EventIDs ==
    {String(<<"L", "o", "g", "/", "0", "A">>), String(<<"L", "o", "g">>),
     String(<<"A", "c", "c", "/", "0", "A">>), String(<<"L", "o">>), String(<<>>), NoTag}

InitEvents == InitWith({}, {}, {}, {}, {<<>>})

NextEvents ==
    \/ CallNewEventManager
    \/ CallPublish({E1, E2, CallEvent}, EventIDs)
    \/ CallFlush({<<"f", "1">>, <<>>}, BOOLEAN)

SpecEvents == InitEvents /\ [][NextEvents]_vars

\* SpecInvoke: transactions of one caller on a ledger that starts empty:
\* queries and malformed arguments, deployments, and calls of the first
\* contract and of an address without account; each successful
\* transaction is committed before the next
Caller == [ok |-> TRUE, addr |-> A1]
NoCreator == [ok |-> FALSE, addr |-> ZeroAddress]
Contract0 == NewContractAddress(A1, 0)
Nobody == <<255>>
Input == <<"0", "1", "0", "2", "0", "3", "0", "4">>
Hex(address) == HexEncode(address, HexLower)

InvokeAddresses ==
    {A1, ZeroAddress, Nobody} \cup {NewContractAddress(A1, n) : n \in 0..MaxUint64}

Env0 == [spare |-> FALSE, setEventFails |-> FALSE]
Envs == {Env0, [Env0 EXCEPT !.spare = TRUE], [Env0 EXCEPT !.setEventFails = TRUE]}

Vm0 == [err |-> FALSE, output |-> Bytecode(<<1>>), selfdestruct |-> FALSE, logs |-> <<>>]
DeployVms == {Vm0, [Vm0 EXCEPT !.err = TRUE], [Vm0 EXCEPT !.output = NilCode]}
CallVms == {Vm0, [Vm0 EXCEPT !.err = TRUE], [Vm0 EXCEPT !.selfdestruct = TRUE],
            [Vm0 EXCEPT !.logs = <<E1.val>>]}

QueryArgs ==
    {<<>>, <<AccountArg>>, <<Input>>, <<Hex(ZeroAddress), Input, Input>>,
     <<GetCodeArg, Hex(Contract0)>>, <<GetCodeArg, <<"z">>>>,
     <<<<"z", "z">>, Input>>, <<Hex(Contract0) \o Hex(Contract0), Input>>,
     <<Hex(Contract0), <<"z">>>>}
DeployArgs == {<<Hex(ZeroAddress), Input>>}
CallArgs == {<<Hex(Contract0), Input>>, <<Hex(Contract0), <<>>>>, <<Hex(Nobody), Input>>}

InitInvoke ==
    /\ ledger = [k \in {AddressString(a) : a \in InvokeAddresses} |-> <<>>]
    /\ wset = <<>>
    /\ accountCaches = [v \in Views |-> <<>>]
    /\ storageCaches = [v \in Views |-> <<>>]
    /\ cachesOf = [v \in Views |-> Root]
    /\ creator = [v \in Views |-> Root]
    /\ EventCache = <<>>
    /\ deployed = {}
    /\ error = [v \in Views |-> NoError]
    /\ readonly = [v \in Views |-> FALSE]
    /\ live = {Root}
    /\ lastOp = [op |-> "Init", view |-> Root, args |-> NoArgs, io |-> NoFailure,
                 ret |-> "void", gets |-> <<>>, puts |-> <<>>, dels |-> <<>>]

NextInvoke ==
    \/ CallInvoke(QueryArgs, {Caller, NoCreator}, {Env0}, {Vm0}, GetFails)
    \/ CallInvoke(DeployArgs, {Caller}, {Env0}, DeployVms, GetFails)
    \/ CallInvoke(CallArgs, {Caller}, Envs, CallVms, NoFail)

SpecInvoke == InitInvoke /\ [][NextInvoke]_vars

\* SpecViews: the root adapter and the views NewCache makes of it and of
\* its views, all writing and reading one account and one slot
InitViews == InitWith({A1}, {0}, {<<>>}, {0}, {<<>>})

NextViews ==
    \/ CallNewCache
    \/ CallIncSequence({A1}, NoFail)
    \/ CallGetSequence({A1}, NoFail)
    \/ CallSetStorage({A1}, {K1}, {W1, W2}, NoFail)
    \/ CallGetStorage({A1}, {K1}, NoFail)

SpecViews == InitViews /\ [][NextViews]_vars

----------------------------------------------------------------------------
(* What a caller reads in a given state, the stub answering its gets *)

StateOf(e, ac, sc) ==
    [error |-> e, accountCache |-> ac, storageCache |-> sc,
     wset |-> <<>>, gets |-> <<>>, puts |-> <<>>, dels |-> <<>>]

\* Lookup(a) over account cache ac
AccountAt(ac, a) == GetAccount(StateOf(NoError, ac, <<>>), a, NoFailure).acct
ExistsAt(ac, a) == Exists(StateOf(NoError, ac, <<>>), a, NoFailure).ret
BalanceAt(ac, a) == GetBalance(StateOf(NoError, ac, <<>>), a, NoFailure).ret
CodeAt(ac, a) == GetCode(StateOf(NoError, ac, <<>>), a, NoFailure).ret
SequenceAt(ac, a) == GetSequence(StateOf(NoError, ac, <<>>), a, NoFailure).ret
PermissionsAt(ac, a) == GetPermissions(StateOf(NoError, ac, <<>>), a, NoFailure).ret

AccountMutators ==
    {"CreateAccount", "InitCode", "AddToBalance", "SubtractFromBalance",
     "SetPermission", "UnsetPermission", "AddRole", "RemoveRole", "IncSequence"}
Mutators == AccountMutators \cup {"RemoveAccount", "SetStorage"}

\* the latch after an error is pushed on latch e
Latched(e, ex) == IF e = NoError THEN ex ELSE e

\* the step is a call of op
Called(op) == lastOp'.op = op

----------------------------------------------------------------------------
(* C1: once a view has a latched error, every mutating operation through   *)
(* it is a no-op: no store put or delete is issued and both caches stay    *)
(* as they were.                                                           *)

C1_LatchedMutatorsAreNoOps ==
    [][(lastOp'.op \in Mutators /\ error[lastOp'.view] # NoError) =>
          /\ lastOp'.puts = <<>>
          /\ lastOp'.dels = <<>>
          /\ accountCache' = accountCache
          /\ storageCache' = storageCache]_vars

(* C2: first error wins.  A latched error keeps its value whatever is      *)
(* pushed or fails later; Error and Sync return the latch and change       *)
(* neither the caches, the store nor the latch, and call no stub function. *)

C2_FirstErrorWins ==
    [][/\ \A v \in Views : error[v] # NoError => error'[v] = error[v]
       /\ lastOp'.op \in {"Error", "Sync"} =>
             /\ lastOp'.ret = error[lastOp'.view]
             /\ UNCHANGED <<ledger, wset, accountCache, storageCache, error>>
             /\ lastOp'.gets = <<>> /\ lastOp'.puts = <<>> /\ lastOp'.dels = <<>>]_vars

\* a later, different error was pushed on a latched view and did not replace it
C2_Witness ==
    /\ lastOp.op = "PushError"
    /\ lastOp.args.err # NoError
    /\ error[lastOp.view] \notin {NoError, lastOp.args.err}

(* C3: account read-after-write.  After an account mutator has written     *)
(* address A (its put issued and not failed), Lookup, Exists, GetBalance,  *)
(* GetCode, GetSequence and GetPermissions of A return the account the     *)
(* mutation produced from the account read before it, although the stub's  *)
(* get still returns the committed bytes.                                  *)

\* the account a mutator makes of the account acc it found (a nil pointer
\* for CreateAccount)
Produced(op, acc) ==
    LET a == op.args
        perms == acc.val.Permissions
    IN  CASE op.op = "CreateAccount" ->
                [Address |-> a.addr, Balance |-> 0, Code |-> Bytecode(<<>>), Sequence |-> 0,
                 Permissions |-> [Base |-> [Perms |-> {"Call", "Send"},
                                           SetBit |-> {"Call", "Send"}],
                                  Roles |-> <<>>]]
          [] op.op = "InitCode" -> [acc.val EXCEPT !.Code = Bytecode(a.code)]
          [] op.op = "AddToBalance" -> [acc.val EXCEPT !.Balance = @ + a.amount]
          [] op.op = "SubtractFromBalance" -> [acc.val EXCEPT !.Balance = @ - a.amount]
          [] op.op = "IncSequence" ->
                [acc.val EXCEPT !.Sequence = IF @ = MaxUint64 THEN 0 ELSE @ + 1]
          [] op.op = "SetPermission" ->
                [acc.val EXCEPT !.Permissions.Base =
                    IF a.flag = {} THEN @
                    ELSE [Perms  |-> IF a.bool THEN @.Perms \cup a.flag ELSE @.Perms \ a.flag,
                          SetBit |-> @.SetBit \cup a.flag]]
          [] op.op = "UnsetPermission" ->
                [acc.val EXCEPT !.Permissions.Base.SetBit = @ \ a.flag]
          [] op.op = "AddRole" ->
                [acc.val EXCEPT !.Permissions.Roles =
                    IF \E i \in DOMAIN @ : @[i] = a.role THEN @ ELSE @ \o <<a.role>>]
          [] op.op = "RemoveRole" ->
                [acc.val EXCEPT !.Permissions.Roles = SelectSeq(@, LAMBDA r : r # a.role)]

C3_AccountReadAfterWrite ==
    [][(lastOp'.op \in AccountMutators /\ lastOp'.puts # <<>> /\ ~lastOp'.io.put) =>
          LET a == lastOp'.args.addr
              want == Produced(lastOp', AccountAt(accountCache, a))
          IN  /\ AccountAt(accountCache', a) = Ptr(want)
              /\ ExistsAt(accountCache', a)
              /\ BalanceAt(accountCache', a) = want.Balance
              /\ CodeAt(accountCache', a) = want.Code
              /\ SequenceAt(accountCache', a) = want.Sequence
              /\ PermissionsAt(accountCache', a) = want.Permissions]_vars

\* a balance was written and the stub still returns the committed balance
C3_Witness ==
    /\ lastOp.op = "AddToBalance"
    /\ lastOp.puts # <<>>
    /\ AccountAt(<<>>, lastOp.args.addr) # NilAccount
    /\ BalanceAt(<<>>, lastOp.args.addr) # BalanceAt(accountCache, lastOp.args.addr)

(* C4: after a successful RemoveAccount(A), Lookup(A) is not found and     *)
(* Exists(A) is false, also when the stub's get still returns the          *)
(* committed bytes of A.                                                   *)

C4_RemovedAccountIsGone ==
    (/\ lastOp.op = "RemoveAccount"
     /\ lastOp.dels # <<>>
     /\ ~lastOp.io.del
     /\ error[lastOp.view] = NoError) =>
        /\ AccountAt(accountCache, lastOp.args.addr) = NilAccount
        /\ ~ExistsAt(accountCache, lastOp.args.addr)

(* C5: storage read-after-write.  After a successful SetStorage(A, K, V),  *)
(* GetStorage(A, K) returns V and calls no stub get, whatever the stub     *)
(* would return for the slot and whatever was set there before.            *)

C5_StorageReadAfterWrite ==
    [][(Called("SetStorage") /\ ~lastOp'.io.put) =>
          \A io \in GetFails :
              LET rd == GetStorage(StateOf(NoError, accountCache', storageCache'),
                                   lastOp'.args.addr, lastOp'.args.key, io)
              IN  rd.ret = lastOp'.args.value /\ rd.st.gets = <<>>]_vars

\* a second value was set over a cached first one, the ledger holding a third
C5_Witness ==
    /\ lastOp.op = "SetStorage"
    /\ ~lastOp.io.put
    /\ lastOp.args.value = W2
    /\ LeftPadWord256(ledger[CompKey(lastOp.args.addr, lastOp.args.key)]) = W1
    /\ storageCache[CompKey(lastOp.args.addr, lastOp.args.key)] = W2

----------------------------------------------------------------------------
(* The step is a call op(A, ...) that found an account at A: cached, or    *)
(* committed and read without failure.                                     *)

Found(op) ==
    /\ Called(op)
    /\ AccountAt(accountCache, lastOp'.args.addr) # NilAccount
    /\ \/ AddressString(lastOp'.args.addr) \in DOMAIN accountCache
       \/ ~lastOp'.io.get

\* the step follows a call of op on the same address through the same view
\* that had its put issued and not failed
Again(op) ==
    /\ lastOp.op = op
    /\ Called(op)
    /\ lastOp'.args.addr = lastOp.args.addr
    /\ lastOp'.view = lastOp.view
    /\ Len(lastOp.puts) = 1
    /\ ~lastOp.io.put

\* the account record a put carries
PutAccount(put) == Unmarshal(put[2], NewAccount(<<>>, ZeroPerms))

(* C6: CreateAccount(A) when an account exists at A, in the account cache  *)
(* or in the store (the read not failing), pushes DuplicateAddress and     *)
(* issues no put; CreateAccount(A) right after the CreateAccount(A) that   *)
(* made a fresh A latches DuplicateAddress, and the two calls issue one    *)
(* put, keyed by A.                                                        *)

C6_DuplicateCreate ==
    [][/\ Found("CreateAccount") =>
             /\ error'[lastOp'.view] = Latched(error[lastOp'.view], DuplicateAddress)
             /\ lastOp'.puts = <<>>
             /\ UNCHANGED <<accountCache, storageCache, wset>>
       /\ (Again("CreateAccount") /\ error[lastOp.view] = NoError) =>
             /\ error'[lastOp'.view] = DuplicateAddress
             /\ Len(lastOp.puts \o lastOp'.puts) = 1
             /\ lastOp.puts[1][1] = AddressString(lastOp.args.addr)]_vars

\* the second create of an address the ledger does not hold
C6_Witness ==
    /\ lastOp.op = "CreateAccount"
    /\ lastOp.puts = <<>>
    /\ error[lastOp.view] = DuplicateAddress
    /\ ledger[AddressString(lastOp.args.addr)] = <<>>
    /\ AddressString(lastOp.args.addr) \in DOMAIN wset
    /\ wset[AddressString(lastOp.args.addr)].op = "put"

(* C7: SubtractFromBalance(A, amount) on an existing account.  With        *)
(* amount > balance it pushes InsufficientBalance, issues no put and       *)
(* leaves the balance as it was; with amount <= balance, no error latched  *)
(* and the put not failing, it lowers the balance by amount, issues one    *)
(* put for A carrying that balance, and latches nothing.  The balance      *)
(* never leaves 0..old balance.                                            *)

C7_SubtractFromBalance ==
    [][Found("SubtractFromBalance") =>
          LET v == lastOp'.view
              a == lastOp'.args.addr
              amount == lastOp'.args.amount
              balance == BalanceAt(accountCache, a)
          IN  /\ amount > balance =>
                    /\ error'[v] = Latched(error[v], InsufficientBalance)
                    /\ lastOp'.puts = <<>>
                    /\ BalanceAt(accountCache', a) = balance
                    /\ UNCHANGED <<accountCache, wset>>
              /\ (amount <= balance /\ error[v] = NoError /\ ~lastOp'.io.put) =>
                    /\ error'[v] = NoError
                    /\ BalanceAt(accountCache', a) = balance - amount
                    /\ Len(lastOp'.puts) = 1
                    /\ lastOp'.puts[1][1] = AddressString(a)
                    /\ PutAccount(lastOp'.puts[1]).Balance = balance - amount
              /\ BalanceAt(accountCache', a) \in 0..balance]_vars

\* more was asked than the account holds
C7_Witness ==
    /\ lastOp.op = "SubtractFromBalance"
    /\ AccountAt(accountCache, lastOp.args.addr) # NilAccount
    /\ lastOp.args.amount > BalanceAt(accountCache, lastOp.args.addr)
    /\ BalanceAt(accountCache, lastOp.args.addr) > 0
    /\ error[lastOp.view] = InsufficientBalance
    /\ lastOp.puts = <<>>

(* C8: AddToBalance(A, x) on an existing account of balance b, with        *)
(* b + x within uint64, no error latched and the put not failing, makes    *)
(* the balance b + x and issues one put for A carrying b + x; a second     *)
(* AddToBalance(A, y) right after it makes the balance b + x + y, and the  *)
(* two calls issue two puts for A, carrying b + x and then b + x + y.      *)

C8_AddToBalanceTwice ==
    [][(/\ Found("AddToBalance")
        /\ BalanceAt(accountCache, lastOp'.args.addr) + lastOp'.args.amount <= MaxUint64
        /\ error[lastOp'.view] = NoError
        /\ ~lastOp'.io.put) =>
          LET a == lastOp'.args.addr
              bx == BalanceAt(accountCache, a)
              y == lastOp'.args.amount
          IN  /\ error'[lastOp'.view] = NoError
              /\ BalanceAt(accountCache', a) = bx + y
              /\ Len(lastOp'.puts) = 1
              /\ lastOp'.puts[1][1] = AddressString(a)
              /\ PutAccount(lastOp'.puts[1]).Balance = bx + y
              /\ Again("AddToBalance") =>
                    LET both == lastOp.puts \o lastOp'.puts
                    IN  /\ Len(both) = 2
                        /\ both[1][1] = AddressString(a) /\ both[2][1] = AddressString(a)
                        /\ PutAccount(both[1]).Balance = bx
                        /\ PutAccount(both[2]).Balance = bx + y]_vars

\* 1 added twice to a balance of zero
C8_Witness ==
    /\ lastOp.op = "AddToBalance"
    /\ lastOp.args.amount = 1
    /\ Len(lastOp.puts) = 1
    /\ ~lastOp.io.put
    /\ error[lastOp.view] = NoError
    /\ ledger[AddressString(lastOp.args.addr)] = <<>>
    /\ BalanceAt(accountCache, lastOp.args.addr) = 2

(* C9: AddToBalance(A, amount) on an existing account with balance +       *)
(* amount above the uint64 maximum pushes IntegerOverflow, issues no put   *)
(* and leaves the balance as it was; a balance operation leaves the        *)
(* balance as it was or makes it the exact sum or difference, in the cache *)
(* and in every put.                                                       *)

C9_NoWrappedBalance ==
    [][/\ Found("AddToBalance") =>
             LET v == lastOp'.view
                 a == lastOp'.args.addr
                 sum == BalanceAt(accountCache, a) + lastOp'.args.amount
             IN  /\ sum > MaxUint64 =>
                       /\ error'[v] = Latched(error[v], IntegerOverflow)
                       /\ lastOp'.puts = <<>>
                       /\ BalanceAt(accountCache', a) = BalanceAt(accountCache, a)
                       /\ UNCHANGED <<accountCache, wset>>
                 /\ BalanceAt(accountCache', a) \in {BalanceAt(accountCache, a), sum}
                 /\ \A i \in DOMAIN lastOp'.puts : PutAccount(lastOp'.puts[i]).Balance = sum
       /\ Found("SubtractFromBalance") =>
             LET a == lastOp'.args.addr
                 diff == BalanceAt(accountCache, a) - lastOp'.args.amount
             IN  /\ BalanceAt(accountCache', a) \in {BalanceAt(accountCache, a), diff}
                 /\ \A i \in DOMAIN lastOp'.puts : PutAccount(lastOp'.puts[i]).Balance = diff
       /\ \A a \in Addresses : BalanceAt(accountCache', a) \in 0..MaxUint64]_vars

\* an addition that would pass the maximum
C9_Witness ==
    /\ lastOp.op = "AddToBalance"
    /\ AccountAt(accountCache, lastOp.args.addr) # NilAccount
    /\ BalanceAt(accountCache, lastOp.args.addr) + lastOp.args.amount > MaxUint64
    /\ BalanceAt(accountCache, lastOp.args.addr) > 0
    /\ error[lastOp.view] = IntegerOverflow
    /\ lastOp.puts = <<>>

(* C10: code is write-once.  InitCode(A, C) on an account without code, no *)
(* error latched and the put not failing, latches nothing and issues one   *)
(* put for A carrying C; an InitCode(A, C2) right after it latches         *)
(* IllegalWrite, issues no put, and the cached and the stored code of A    *)
(* remain C.                                                               *)

\* the second of two InitCode on one account, the first having written code c
SecondInitCode(c) ==
    /\ Again("InitCode")
    /\ lastOp.args.code = c
    /\ error[lastOp.view] = NoError

CodeKept ==
    LET a == lastOp'.args.addr
    IN  /\ error'[lastOp'.view] = IllegalWrite
        /\ lastOp'.puts = <<>>
        /\ CodeAt(accountCache', a) = Bytecode(lastOp.args.code)
        /\ wset'[AddressString(a)].op = "put"
        /\ PutAccount(<<AddressString(a), wset'[AddressString(a)].val>>).Code
              = Bytecode(lastOp.args.code)

FirstInitCode ==
    (/\ Found("InitCode")
     /\ CodeAt(accountCache, lastOp'.args.addr).bz = <<>>
     /\ error[lastOp'.view] = NoError
     /\ ~lastOp'.io.put) =>
        /\ error'[lastOp'.view] = NoError
        /\ Len(lastOp'.puts) = 1
        /\ lastOp'.puts[1][1] = AddressString(lastOp'.args.addr)
        /\ PutAccount(lastOp'.puts[1]).Code = Bytecode(lastOp'.args.code)
        /\ CodeAt(accountCache', lastOp'.args.addr) = Bytecode(lastOp'.args.code)

\* as claimed: for every code C
C10_CodeWriteOnce ==
    [][/\ FirstInitCode
       /\ \A c \in {<<>>, <<1>>, <<2>>} : SecondInitCode(c) => CodeKept]_vars

\* amended: for every code C that is not empty
C10_NonEmptyCodeWriteOnce ==
    [][/\ FirstInitCode
       /\ \A c \in {<<1>>, <<2>>} : SecondInitCode(c) => CodeKept]_vars

\* a second InitCode with other code was refused, the first code kept
C10_Witness ==
    /\ lastOp.op = "InitCode"
    /\ error[lastOp.view] = IllegalWrite
    /\ lastOp.puts = <<>>
    /\ AddressString(lastOp.args.addr) \in DOMAIN wset
    /\ wset[AddressString(lastOp.args.addr)].op = "put"
    /\ CodeAt(accountCache, lastOp.args.addr).bz # <<>>
    /\ CodeAt(accountCache, lastOp.args.addr) # Bytecode(lastOp.args.code)

----------------------------------------------------------------------------
(* The step is a call op(A, ...) that found no account at A: none cached,  *)
(* and none in the bytes the stub returned without failure.                *)

NotFound(op) ==
    /\ Called(op)
    /\ AccountAt(accountCache, lastOp'.args.addr) = NilAccount
    /\ ~lastOp'.io.get

\* the call touched neither the latch, the caches nor the write set
Quiet ==
    /\ error' = error
    /\ lastOp'.puts = <<>>
    /\ lastOp'.dels = <<>>
    /\ UNCHANGED <<accountCache, storageCache, wset>>

(* C11: InitCode(A, code) on an address without account, through a view    *)
(* without latched error, leaves InvalidAddress latched and issues no put. *)

C11_InitCodeLatchesInvalidAddress ==
    [][(NotFound("InitCode") /\ error[lastOp'.view] = NoError) =>
          /\ error'[lastOp'.view] = InvalidAddress
          /\ lastOp'.puts = <<>>]_vars

(* C12: AddToBalance, SubtractFromBalance, SetPermission, UnsetPermission, *)
(* AddRole, RemoveRole and IncSequence on an address without account,      *)
(* through a view without latched error, latch IllegalWrite, issue no put, *)
(* leave both caches as they were and make no account; AddRole and         *)
(* RemoveRole return false.                                                *)

InPlaceMutators ==
    {"AddToBalance", "SubtractFromBalance", "SetPermission", "UnsetPermission",
     "AddRole", "RemoveRole", "IncSequence"}

C12_MutateMissingAccount ==
    [][\A op \in InPlaceMutators :
          (NotFound(op) /\ error[lastOp'.view] = NoError) =>
              /\ error'[lastOp'.view] = IllegalWrite
              /\ lastOp'.puts = <<>>
              /\ lastOp'.dels = <<>>
              /\ UNCHANGED <<accountCache, storageCache, wset>>
              /\ AccountAt(accountCache', lastOp'.args.addr) = NilAccount
              /\ op \in {"AddRole", "RemoveRole"} => lastOp'.ret = FALSE]_vars

\* a role was added to an account that is not there
C12_Witness ==
    /\ lastOp.op = "AddRole"
    /\ ~lastOp.io.get
    /\ lastOp.ret = FALSE
    /\ lastOp.puts = <<>>
    /\ error[lastOp.view] = IllegalWrite
    /\ AccountAt(accountCache, lastOp.args.addr) = NilAccount

(* C13: with the stub answering the get, the read accessors of an address  *)
(* that has no account in the cache or the store return the zero value:    *)
(* Exists false, GetAccount no account and no error, GetBalance and        *)
(* GetSequence 0, GetCode no code, GetPermissions the empty permissions;   *)
(* GetStorage of a slot neither cached nor stored returns the zero word.   *)
(* None of these calls latches an error or issues a put or a delete.       *)

AccountReaders ==
    {"Exists", "GetAccount", "GetBalance", "GetSequence", "GetCode", "GetPermissions"}

ZeroOf(op) ==
    CASE op = "Exists" -> FALSE
      [] op = "GetAccount" -> [acct |-> NilAccount, err |-> NoError]
      [] op = "GetBalance" -> 0
      [] op = "GetSequence" -> 0
      [] op = "GetCode" -> [nil |-> TRUE, bz |-> <<>>]
      [] op = "GetPermissions" -> [Base |-> [Perms |-> {}, SetBit |-> {}], Roles |-> <<>>]
      [] op = "GetStorage" -> [i \in 1..WordLen |-> 0]

NeverWritten(address, key) ==
    /\ CompKey(address, key) \notin DOMAIN storageCache
    /\ ledger[CompKey(address, key)] = <<>>

C13_ReadsOfNothing ==
    [][/\ \A op \in AccountReaders :
              NotFound(op) => lastOp'.ret = ZeroOf(op) /\ Quiet
       /\ (/\ Called("GetStorage")
           /\ ~lastOp'.io.get
           /\ NeverWritten(lastOp'.args.addr, lastOp'.args.key)) =>
              lastOp'.ret = ZeroOf("GetStorage") /\ Quiet]_vars

\* the balance of an address without account was read beside an account
C13_Witness ==
    /\ lastOp.op = "GetBalance"
    /\ ~lastOp.io.get
    /\ lastOp.gets # <<>>
    /\ lastOp.ret = 0
    /\ error[lastOp.view] = NoError
    /\ AccountAt(accountCache, lastOp.args.addr) = NilAccount
    /\ accountCache # <<>>

(* C16: a stub get that fails during Exists, GetBalance, GetSequence,      *)
(* GetCode or GetStorage is latched, and the accessor returns its zero     *)
(* value; GetAccount returns no account and the error when the get fails,  *)
(* and no account and no error when the stub has no bytes under the key.   *)

ReadFailed(op) ==
    /\ Called(op)
    /\ lastOp'.io.get
    /\ IF op = "GetStorage"
       THEN CompKey(lastOp'.args.addr, lastOp'.args.key) \notin DOMAIN storageCache
       ELSE AddressString(lastOp'.args.addr) \notin DOMAIN accountCache

C16_ReadFailure ==
    [][/\ \A op \in {"Exists", "GetBalance", "GetSequence", "GetCode", "GetStorage"} :
              ReadFailed(op) =>
                  /\ error'[lastOp'.view] = Latched(error[lastOp'.view], GetStateError)
                  /\ lastOp'.ret = ZeroOf(op)
       /\ ReadFailed("GetAccount") =>
              lastOp'.ret = [acct |-> NilAccount, err |-> GetStateError]
       /\ (/\ Called("GetAccount")
           /\ ~lastOp'.io.get
           /\ AddressString(lastOp'.args.addr) \notin DOMAIN accountCache
           /\ ledger[AddressString(lastOp'.args.addr)] = <<>>) =>
              lastOp'.ret = [acct |-> NilAccount, err |-> NoError]]_vars

\* the get of a committed account failed: balance 0, and the error latched
C16_Witness ==
    /\ lastOp.op = "GetBalance"
    /\ lastOp.io.get
    /\ lastOp.gets # <<>>
    /\ lastOp.ret = 0
    /\ error[lastOp.view] = GetStateError
    /\ ledger[AddressString(lastOp.args.addr)] # <<>>

(* C17: a read is repeated when the step is GetAccount(A) or               *)
(* GetStorage(A, K) right after the same call through the same view, which *)
(* missed the cache and whose get did not fail.                            *)

Repeated(op) ==
    /\ Called(op)
    /\ lastOp.op = op
    /\ lastOp.view = lastOp'.view
    /\ lastOp.args = lastOp'.args
    /\ lastOp.gets # <<>>
    /\ ~lastOp.io.get

(* C17 as claimed: the repeated read issues no stub get and returns the    *)
(* same value.                                                             *)

C17_ReadThroughCaching ==
    [][\A op \in {"GetAccount", "GetStorage"} :
          Repeated(op) => lastOp'.gets = <<>> /\ lastOp'.ret = lastOp.ret]_vars

(* C17: reads are not cached.  No read accessor changes either cache; the  *)
(* repeated read issues the same stub get again, and returns the same      *)
(* value when that get does not fail.                                      *)

C17_ReadsAreNotCached ==
    [][/\ \A op \in AccountReaders \cup {"GetStorage"} :
              Called(op) => UNCHANGED <<accountCache, storageCache>>
       /\ \A op \in {"GetAccount", "GetStorage"} :
              Repeated(op) =>
                  /\ lastOp'.gets = lastOp.gets
                  /\ ~lastOp'.io.get => lastOp'.ret = lastOp.ret]_vars

\* a stored slot was read from the stub, and is still not cached
C17_Witness ==
    /\ lastOp.op = "GetStorage"
    /\ ~lastOp.io.get
    /\ lastOp.gets = <<CompKey(lastOp.args.addr, lastOp.args.key)>>
    /\ lastOp.ret # Zero256
    /\ CompKey(lastOp.args.addr, lastOp.args.key) \notin DOMAIN storageCache

(* C14: RemoveAccount(A) on an address without account latches             *)
(* DuplicateAddress and issues no delete; on an address with an account,   *)
(* the delete not failing, it latches nothing and issues one delete, keyed *)
(* by the account key of A.                                                *)

C14_RemoveAccount ==
    [][/\ NotFound("RemoveAccount") =>
              /\ error'[lastOp'.view] = Latched(error[lastOp'.view], DuplicateAddress)
              /\ lastOp'.dels = <<>>
       /\ (Found("RemoveAccount") /\ ~lastOp'.io.del) =>
              /\ error' = error
              /\ lastOp'.dels = <<AddressString(lastOp'.args.addr)>>]_vars

\* an account that is not there was removed
C14_Witness ==
    /\ lastOp.op = "RemoveAccount"
    /\ ~lastOp.io.get
    /\ lastOp.gets # <<>>
    /\ lastOp.dels = <<>>
    /\ error[lastOp.view] = DuplicateAddress

(* C15: SetStorage(A, K, V) issues its put first and caches V only when    *)
(* the put succeeded.  When the put fails, the store error is latched, the *)
(* storage cache is left as it was, and GetStorage(A, K) returns what it   *)
(* returned before: the cached value, or else the stored one.              *)

StorageAt(sc, a, k) == GetStorage(StateOf(NoError, <<>>, sc), a, k, NoFailure).ret

C15_FailedSetStorageNotCached ==
    [][Called("SetStorage") =>
          LET A == lastOp'.args.addr
              K == lastOp'.args.key
              V == lastOp'.args.value
          IN  /\ lastOp'.puts = <<<<CompKey(A, K), V>>>>
              /\ lastOp'.io.put =>
                     /\ error'[lastOp'.view] = Latched(error[lastOp'.view], PutStateError)
                     /\ storageCache' = storageCache
                     /\ StorageAt(storageCache', A, K) =
                            IF CompKey(A, K) \in DOMAIN storageCache
                            THEN storageCache[CompKey(A, K)]
                            ELSE LeftPadWord256(ledger[CompKey(A, K)])
              /\ ~lastOp'.io.put =>
                     /\ error' = error
                     /\ storageCache' = (CompKey(A, K) :> V) @@ storageCache]_vars

\* the put of another value into a cached slot failed
C15_Witness ==
    /\ lastOp.op = "SetStorage"
    /\ lastOp.io.put
    /\ error[lastOp.view] = PutStateError
    /\ CompKey(lastOp.args.addr, lastOp.args.key) \in DOMAIN storageCache
    /\ StorageAt(storageCache, lastOp.args.addr, lastOp.args.key) # lastOp.args.value

(* C19: CreateAccount(A) on an address without account, the get and the    *)
(* put not failing, latches nothing and issues one put, keyed by the       *)
(* account key of A, of the record with address A, balance 0, sequence 0,  *)
(* empty code, Call and Send set and no roles; A exists afterwards.        *)

C19_CreateAccount ==
    [][(NotFound("CreateAccount") /\ ~lastOp'.io.put) =>
          /\ error' = error
          /\ Len(lastOp'.puts) = 1
          /\ lastOp'.puts[1][1] = AddressString(lastOp'.args.addr)
          /\ LET acc == PutAccount(lastOp'.puts[1])
             IN  /\ acc.Address = lastOp'.args.addr
                 /\ acc.Balance = 0
                 /\ acc.Sequence = 0
                 /\ acc.Code.bz = <<>>
                 /\ acc.Permissions = [Base |-> [Perms |-> {"Call", "Send"},
                                                 SetBit |-> {"Call", "Send"}],
                                       Roles |-> <<>>]
          /\ ExistsAt(accountCache', lastOp'.args.addr)]_vars

\* a fresh account was created beside a committed one
C19_Witness ==
    /\ lastOp.op = "CreateAccount"
    /\ lastOp.io = NoFailure
    /\ Len(lastOp.puts) = 1
    /\ error[lastOp.view] = NoError
    /\ ledger[AddressString(lastOp.args.addr)] = <<>>
    /\ ExistsAt(accountCache, lastOp.args.addr)
    /\ \E k \in AccountKeys : ledger[k] # <<>>

(* C20: when the get of the existence check of CreateAccount(A) fails, the *)
(* store error is latched and nothing is written: no put is issued and the *)
(* account cache is left as it was.                                        *)

C20_CreateAccountReadFailure ==
    [][ReadFailed("CreateAccount") =>
          /\ error'[lastOp'.view] = Latched(error[lastOp'.view], GetStateError)
          /\ lastOp'.puts = <<>>
          /\ accountCache' = accountCache]_vars

(* C18: the views share both caches.  Whatever view an account mutator or  *)
(* SetStorage goes through, once its put has succeeded every live view,    *)
(* the root adapter and the views of views included, reads the account the *)
(* put carries and the word that was set.                                  *)

AccountCacheOf(v) == accountCaches[cachesOf[v]]
StorageCacheOf(v) == storageCaches[cachesOf[v]]

C18_ViewsShareCaches ==
    [][\A u \in live' :
          /\ \A op \in AccountMutators :
                 (Called(op) /\ Len(lastOp'.puts) = 1 /\ ~lastOp'.io.put) =>
                     AccountAt(AccountCacheOf(u)', lastOp'.args.addr) =
                         Ptr(PutAccount(lastOp'.puts[1]))
          /\ (Called("SetStorage") /\ ~lastOp'.io.put) =>
                 StorageAt(StorageCacheOf(u)', lastOp'.args.addr, lastOp'.args.key) =
                     lastOp'.args.value]_vars

\* a view of a view has raised a sequence number, and the root adapter reads it
C18_Witness ==
    /\ lastOp.op = "IncSequence"
    /\ Len(lastOp.puts) = 1
    /\ creator[lastOp.view] # Root
    /\ SequenceAt(AccountCacheOf(Root), lastOp.args.addr) = PutAccount(lastOp.puts[1]).Sequence
    /\ SequenceAt(AccountCacheOf(Root), lastOp.args.addr) > 0

(* C21: a failed store write is not cached.  When the put of an account    *)
(* mutator fails, or the delete of RemoveAccount, the store error is       *)
(* latched and the account cache is what it was before the call, so the    *)
(* accessors return the account of before.                                 *)

C21_FailedAccountWriteNotCached ==
    [][\A op \in AccountMutators \cup {"RemoveAccount"} :
          (/\ Called(op)
           /\ \/ lastOp'.puts # <<>> /\ lastOp'.io.put
              \/ lastOp'.dels # <<>> /\ lastOp'.io.del) =>
              /\ error'[lastOp'.view] # NoError
              /\ accountCache' = accountCache
              /\ AccountAt(accountCache', lastOp'.args.addr) =
                     AccountAt(accountCache, lastOp'.args.addr)]_vars

(* C24: IncSequence(A) on an existing account, its put not failing, raises *)
(* GetSequence(A) by 1 and issues one put for A; as long as A exists, no   *)
(* call makes GetSequence(A) smaller.                                      *)

C24_SequenceNeverDecreases ==
    [][/\ (Found("IncSequence") /\ ~lastOp'.io.put) =>
              /\ SequenceAt(accountCache', lastOp'.args.addr) =
                     SequenceAt(accountCache, lastOp'.args.addr) + 1
              /\ Len(lastOp'.puts) = 1
              /\ lastOp'.puts[1][1] = AddressString(lastOp'.args.addr)
       /\ \A a \in Addresses :
              (ExistsAt(accountCache, a) /\ ExistsAt(accountCache', a)) =>
                  SequenceAt(accountCache', a) >= SequenceAt(accountCache, a)]_vars

(* C22: the readonly flag blocks nothing.  Through a view that NewCache    *)
(* marked read-only, SetStorage still issues its put and caches the word,  *)
(* and IncSequence on an existing account still issues its put and caches  *)
(* the raised sequence number; neither latches an error.                   *)

C22_ReadonlyViewsWrite ==
    [][\A v \in live : (lastOp'.view = v /\ readonly[v] /\ ~lastOp'.io.put) =>
          LET A == lastOp'.args.addr
          IN  /\ Called("SetStorage") =>
                     /\ lastOp'.puts = <<<<CompKey(A, lastOp'.args.key), lastOp'.args.value>>>>
                     /\ StorageAt(StorageCacheOf(v)', A, lastOp'.args.key) = lastOp'.args.value
                     /\ wset'[CompKey(A, lastOp'.args.key)] =
                            [op |-> "put", val |-> lastOp'.args.value]
                     /\ error' = error
              /\ Found("IncSequence") =>
                     /\ Len(lastOp'.puts) = 1
                     /\ lastOp'.puts[1][1] = AddressString(A)
                     /\ SequenceAt(AccountCacheOf(v)', A) =
                            Uint64(SequenceAt(AccountCacheOf(v), A) + 1)
                     /\ wset'[AddressString(A)] = [op |-> "put", val |-> lastOp'.puts[1][2]]
                     /\ error' = error]_vars

\* a word was set through a read-only view
C22_Witness ==
    /\ lastOp.op = "SetStorage"
    /\ readonly[lastOp.view]
    /\ Len(lastOp.puts) = 1
    /\ error[lastOp.view] = NoError
    /\ StorageAt(storageCache, lastOp.args.addr, lastOp.args.key) = lastOp.args.value

(* C23: the latch is per view.  The view NewCache returns has no latched   *)
(* error, whatever its creator has latched; a call through one view leaves *)
(* what Error and Sync of every other view return as it was.               *)

ErrorAt(e) == Error(StateOf(e, <<>>, <<>>)).ret
SyncAt(e) == Sync(StateOf(e, <<>>, <<>>)).ret

C23_LatchPerView ==
    [][/\ Called("NewCache") =>
              /\ ErrorAt(error'[lastOp'.ret]) = NoError
              /\ SyncAt(error'[lastOp'.ret]) = NoError
       /\ \A u \in live :
              u # lastOp'.view =>
                  /\ ErrorAt(error'[u]) = ErrorAt(error[u])
                  /\ SyncAt(error'[u]) = SyncAt(error[u])]_vars

\* a view was made by an adapter that has an error latched
C23_Witness ==
    /\ lastOp.op = "NewCache"
    /\ error[lastOp.view] # NoError
    /\ error[lastOp.ret] = NoError
    /\ cachesOf[lastOp.ret] = cachesOf[lastOp.view]

(* C26: keys are isolated.  SetStorage(A, K, V) changes what GetStorage    *)
(* returns for no slot but (A, K), changes no account, and writes no other *)
(* key of the store; an account mutator or RemoveAccount on A changes no   *)
(* other account, no slot, and writes no other key.  No account key is a   *)
(* composite storage key, and different (address, key) pairs have          *)
(* different composite keys.                                               *)

Written(ws, k) == IF k \in DOMAIN ws THEN ws[k] ELSE [op |-> "none"]

C26_KeysIsolated ==
    [][/\ Called("SetStorage") =>
              /\ \A a \in Addresses, k \in StorageKeys :
                     <<a, k>> # <<lastOp'.args.addr, lastOp'.args.key>> =>
                         /\ StorageAt(storageCache', a, k) = StorageAt(storageCache, a, k)
                         /\ Written(wset', CompKey(a, k)) = Written(wset, CompKey(a, k))
              /\ \A a \in Addresses :
                     /\ AccountAt(accountCache', a) = AccountAt(accountCache, a)
                     /\ Written(wset', AddressString(a)) = Written(wset, AddressString(a))
       /\ \A op \in AccountMutators \cup {"RemoveAccount"} :
              Called(op) =>
                  /\ \A a \in Addresses \ {lastOp'.args.addr} :
                         /\ AccountAt(accountCache', a) = AccountAt(accountCache, a)
                         /\ Written(wset', AddressString(a)) = Written(wset, AddressString(a))
                  /\ \A a \in Addresses, k \in StorageKeys :
                         /\ StorageAt(storageCache', a, k) = StorageAt(storageCache, a, k)
                         /\ Written(wset', CompKey(a, k)) = Written(wset, CompKey(a, k))
       /\ \A a, b \in Addresses, k, l \in StorageKeys :
              /\ AddressString(a) # CompKey(b, k)
              /\ <<a, k>> # <<b, l>> => CompKey(a, k) # CompKey(b, l)]_vars

\* a word was set in a slot beside another set slot and an account
C26_Witness ==
    /\ lastOp.op = "SetStorage"
    /\ Len(lastOp.puts) = 1
    /\ Cardinality(DOMAIN storageCache) >= 2
    /\ accountCache # <<>>
    /\ \E a \in Addresses, k \in StorageKeys :
           StorageAt(storageCache, a, k) # lastOp.args.value

(* C27: records sit under their own key.  Every put an account mutator    *)
(* called with address A issues is keyed by the account key of A, and      *)
(* every record in the account cache, put to the store or committed in    *)
(* the ledger under an account key carries the address of that key.        *)

AddressOf(bz) == Unmarshal(bz, NewAccount(<<>>, ZeroPerms)).Address

C27_RecordsUnderOwnKey ==
    [][/\ \A op \in AccountMutators :
              Called(op) =>
                  \A i \in 1..Len(lastOp'.puts) :
                      /\ lastOp'.puts[i][1] = AddressString(lastOp'.args.addr)
                      /\ AddressString(AddressOf(lastOp'.puts[i][2])) = lastOp'.puts[i][1]
       /\ \A k \in DOMAIN accountCache' :
              AddressString(AddressOf(accountCache'[k])) = k
       /\ \A k \in AccountKeys :
              /\ ledger'[k] # <<>> => AddressString(AddressOf(ledger'[k])) = k
              /\ (k \in DOMAIN wset' /\ wset'[k].op = "put") =>
                     AddressString(AddressOf(wset'[k].val)) = k]_vars

\* both addresses have a cached record, the last one changed in place
C27_Witness ==
    /\ lastOp.op = "IncSequence"
    /\ Len(lastOp.puts) = 1
    /\ Cardinality(DOMAIN accountCache) = 2
    /\ \E k \in AccountKeys : ledger[k] # <<>>

(* C29: event buffering.  Publish appends its log event to the buffer when *)
(* the EventID tag begins with Log, and leaves the buffer as it was        *)
(* otherwise, as it does for a message that is no log event; Flush issues  *)
(* no SetEvent when the buffer is empty, and else one SetEvent whose       *)
(* payload lists the buffered events in the order they were published.     *)

BeginsWithLog(tag) ==
    /\ tag.type = "string"
    /\ Len(tag.val) >= 3
    /\ \A i \in 1..3 : tag.val[i] = <<"L", "o", "g">>[i]

C29_EventBuffering ==
    [][/\ (Called("Publish") /\ lastOp'.args.message.type = "*exec.LogEvent") =>
              IF BeginsWithLog(lastOp'.args.tags.EventID)
              THEN EventCache' = EventCache \o <<lastOp'.args.message.val>>
              ELSE EventCache' = EventCache
       /\ (Called("Publish") /\ lastOp'.args.message.type # "*exec.LogEvent") =>
              EventCache' = EventCache
       /\ Called("Flush") =>
              IF EventCache = <<>>
              THEN lastOp'.ret.events = <<>>
              ELSE /\ Len(lastOp'.ret.events) = 1
                   /\ lastOp'.ret.events[1][1] = lastOp'.args.eventName
                   /\ LET payload == lastOp'.ret.events[1][2]
                      IN  /\ Len(payload) = Len(EventCache)
                          /\ \A i \in 1..Len(EventCache) :
                                 payload[i] = <<EventCache[i].Address, EventCache[i].Data>>]_vars

\* two different events were published and flushed
C29_Witness ==
    /\ lastOp.op = "Flush"
    /\ Len(EventCache) = 2
    /\ EventCache[1] # EventCache[2]
    /\ Len(lastOp.ret.events) = 1
    /\ Len(lastOp.ret.events[1][2]) = 2

(* C25: deployments never reuse a nonce.  A successful deployment returns  *)
(* the contract address made of the caller and the sequence number the     *)
(* caller had in the ledger before it, and that number is greater than the *)
(* number of every earlier successful deployment of the caller.            *)

CommittedSequence(address) == SequenceAt(<<>>, address)

C25_NonceNeverReused ==
    [][(/\ Called("Invoke")
        /\ IsDeploy(lastOp'.args.args)
        /\ lastOp'.ret.response.status = "success") =>
          LET caller == lastOp'.args.identity.addr
              n == CommittedSequence(caller)
          IN  /\ lastOp'.ret.response.payload = HexEncode(NewContractAddress(caller, n), HexLower)
              /\ \A d \in deployed : d[1] = caller => d[2] < n]_vars

(* C28: Invoke ends in a success or an error response, never in a panic,   *)
(* whatever the arguments and the ledger; a wrong number of arguments      *)
(* gives the "expects 2 args" error, and the call of an address without    *)
(* account the "failed to retrieve contract code" error.                   *)

WrongArgCount(args) == Len(args) # 2 /\ ~(Len(args) = 1 /\ args[1] = AccountArg)

CallsNobody(args) ==
    /\ Len(args) = 2
    /\ args[1] # GetCodeArg
    /\ ~HexDecode(args[1]).err
    /\ ~AddressFromBytes(HexDecode(args[1]).bz).err
    /\ HexDecode(args[1]).bz # ZeroAddress
    /\ ~HexDecode(args[2]).err
    /\ lastOp'.args.identity.ok
    /\ HexDecode(args[1]).bz # lastOp'.args.identity.addr
    /\ ~lastOp'.io.get
    /\ ledger[AddressString(HexDecode(args[1]).bz)] = <<>>

C28_InvokeAlwaysResponds ==
    [][Called("Invoke") =>
          /\ lastOp'.ret.response.status \in {"success", "error"}
          /\ WrongArgCount(lastOp'.args.args) =>
                 lastOp'.ret.response = ShimError("expects 2 args")
          /\ CallsNobody(lastOp'.args.args) =>
                 lastOp'.ret.response = ShimError("failed to retrieve contract code")]_vars

====
